---------------------------- MODULE Spec2Model ----------------------------
(* A model of main.c: a two-party TCP chat.  The process is the main thread *)
(* (main, HostServer / ConnectToHost, Chat, CloseConnection) and the input  *)
(* threads Chat creates (WaitForUserInput), sharing the globals             *)
(* bHasMessageWaiting, bPerformExit, InputBuffer, ReceiveBuffer and         *)
(* ServerSocket.  The network, the keyboard and pthread_create are the      *)
(* environment: every outcome they can return is a choice of the action     *)
(* that calls them.                                                         *)
EXTENDS Integers, Sequences, FiniteSets, TLC

(***************************************************************************)
(* Bounds.  The buffers of main.c hold 300 bytes; the model keeps the      *)
(* layout (a zero-terminated C string in a fixed array) in BufSize bytes.  *)
(***************************************************************************)
BufSize == 3
MaxThreads == 2
MaxOver == 1
MaxPortLen == 5
MaxIPLen == 9
MaxRetryLen == 1

(* Byte values: NUL, '\n', '\r' and two printable characters, the digit   *)
(* '1' and the letter 'Q', the first of the QUIT that line 293 asks for.   *)
NUL == 0
LF == 10
CR == 13
Digit1 == 49
LetterQ == 81

Bytes == {NUL, LF, CR, Digit1, LetterQ}
(* A keyboard line is text: it holds no zero byte. *)
KeyBytes == {LF, CR, Digit1, LetterQ}
(* A received chunk holds any bytes. *)
RecvBytes == {NUL, Digit1}

(* socket(): the first descriptor the process gets; accept(): the next. *)
INVALID_SOCKET == -1
SOCKET_ERROR == -1
FirstFd == 3
AcceptFd == 4

Index == 0 .. (BufSize - 1)
Zeroed == [i \in Index |-> NUL]

VARIABLES
    pc,                 \* position of the main thread
    ConnectionMode,     \* "UNSET", "SERVER", "CLIENT"
    bConnectionSuccess,
    ServerSocket,       \* value of the global: 0 at start, -1, or a descriptor
    openSocks,          \* descriptors the process holds open
    connected,          \* descriptors that are an established stream
    listening,          \* descriptors that listen() put in the listening state
    bHasMessageWaiting,
    bPerformExit,
    InputBuffer,
    ReceiveBuffer,
    InputThread,        \* index of the thread the pthread_t names, 0 if none
    thr,                \* state of every input thread
    SelectResponse,
    recvRet,            \* case the last recv fell in: "none" before it,
                        \* "error" (SOCKET_ERROR), "zero" or "data" (N > 0)
    line,               \* bytes the fgets of the current input thread read
    sent,               \* bytes passed to send in step 1 of this iteration
    got,                \* bytes the recv of this iteration delivered
    shown,              \* bytes the "They said" of this iteration printed
    report,             \* last message Chat printed in this iteration
    failed,             \* network operations that have failed in the running session
    oob,                \* accesses the last step made outside the two arrays
    promptPc,           \* position inside GetValidPortNo / GetValidIP
    promptText,         \* the answer fgets read at the prompt, without newline
    promptOk            \* bValidInput after the checks of the prompt

vars == << pc, ConnectionMode, bConnectionSuccess, ServerSocket,
           openSocks, connected, listening, bHasMessageWaiting, bPerformExit,
           InputBuffer, ReceiveBuffer, InputThread, thr, SelectResponse,
           recvRet, line, sent, got, shown, report, failed, oob,
           promptPc, promptText, promptOk >>

netVars == << ServerSocket, openSocks, connected, listening >>
promptVars == << promptPc, promptText, promptOk >>
setupVars == << promptVars, ConnectionMode, bConnectionSuccess, netVars >>
chatVars == << bHasMessageWaiting, bPerformExit, InputBuffer, InputThread, thr,
               line, sent, report, failed >>
rxVars == << ReceiveBuffer, SelectResponse, recvRet, got, shown >>

Threads == 1 .. MaxThreads

(***************************************************************************)
(* C string helpers.                                                       *)
(***************************************************************************)
HasNul(buf) == \E i \in Index : buf[i] = NUL

(* strlen on a buffer: the index of the first zero byte.  A buffer with no *)
(* zero byte makes strlen run past the array; BufSize stands for that.     *)
Strlen(buf) ==
    IF HasNul(buf)
    THEN CHOOSE i \in Index : buf[i] = NUL /\ \A j \in 0 .. (i - 1) : buf[j] # NUL
    ELSE BufSize

(* The bytes of the C string held in buf, within the array. *)
CStr(buf) == [k \in 1 .. Strlen(buf) |-> buf[k - 1]]

SeqUpTo(S, n) == UNION { [1 .. k -> S] : k \in 0 .. n }

(* What one fgets(InputBuffer, 300, stdin) can read: up to BufSize-1 bytes, *)
(* a newline only as the last of them; the empty sequence is end of input  *)
(* or a read error.                                                        *)
Lines ==
    { L \in SeqUpTo(KeyBytes, BufSize - 1) :
        \A i \in 1 .. (Len(L) - 1) : L[i] # LF }

(* What the last prompt before the session (GetValidPortNo for the server, *)
(* GetValidIP for the client, both reading with fgets into InputBuffer)    *)
(* leaves in InputBuffer: an accepted answer, with or without room for its *)
(* newline.                                                                *)
PromptLines ==
    { L \in Lines :
        /\ Len(L) >= 2
        /\ \A i \in 1 .. (Len(L) - 1) : L[i] = Digit1
        /\ L[Len(L)] \in {LF, Digit1}
        /\ L[Len(L)] = LF \/ Len(L) = BufSize - 1 }

(* What one recv(ServerSocket, ReceiveBuffer, 300, 0) can deliver. *)
Chunks == UNION { [1 .. k -> RecvBytes] : k \in 1 .. BufSize }

(* Bytes found after the end of ReceiveBuffer before a zero byte. *)
Garbage == SeqUpTo({Digit1}, MaxOver)

(* fgets: the bytes read, then a terminating zero; nothing on failure. *)
FgetsStore(buf, L) ==
    IF L = << >> THEN buf
    ELSE [i \in Index |->
            IF i < Len(L) THEN L[i + 1]
            ELSE IF i = Len(L) THEN NUL ELSE buf[i]]

(* recv: the bytes delivered, the rest of the buffer untouched. *)
RecvStore(buf, c) ==
    [i \in Index |-> IF i < Len(c) THEN c[i + 1] ELSE buf[i]]

(* memset(buf, '\0', n) within the array. *)
Memset(buf, n) == [i \in Index |-> IF i < n THEN NUL ELSE buf[i]]

(***************************************************************************)
(* Initial state: the globals are zero-initialised; main zeroes the two    *)
(* buffers (lines 99-100) and has not yet asked for the role.              *)
(***************************************************************************)
Init ==
    /\ pc = "while"
    /\ ConnectionMode = "UNSET"
    /\ bConnectionSuccess = FALSE
    /\ ServerSocket = 0
    /\ openSocks = {}
    /\ connected = {}
    /\ listening = {}
    /\ bHasMessageWaiting = FALSE
    /\ bPerformExit = FALSE
    /\ InputBuffer = Zeroed
    /\ ReceiveBuffer = Zeroed
    /\ InputThread = 0
    /\ thr = [t \in Threads |-> "none"]
    /\ SelectResponse = 0
    /\ recvRet = "none"
    /\ line = << >>
    /\ sent = << >>
    /\ got = << >>
    /\ shown = << >>
    /\ report = "none"
    /\ failed = {}
    /\ oob = {}
    /\ promptPc = "idle"
    /\ promptText = << >>
    /\ promptOk = FALSE

(***************************************************************************)
(* main                                                                    *)
(***************************************************************************)
(* MainWhile with || for && in the loop test: the test is always true. *)
MainWhileAlways ==
    /\ pc = "while"
    /\ pc' = IF ConnectionMode # "CLIENT" \/ ConnectionMode # "SERVER"
             THEN "getchar" ELSE "exit_prompt"
    /\ UNCHANGED << setupVars, chatVars, rxVars >>
    /\ oob' = {}

(* Line 117: the test of the role-selection loop. *)
MainWhile ==
    /\ pc = "while"
    /\ pc' = IF ConnectionMode # "CLIENT" /\ ConnectionMode # "SERVER"
             THEN "getchar" ELSE "exit_prompt"
    /\ UNCHANGED << setupVars, chatVars, rxVars >>
    /\ oob' = {}

(* Lines 118-126, 142-152, 169-172: the role prompt and its three branches. *)
(* GetValidPortNo (394-412) and GetValidIP (414-478) return once the user  *)
(* typed an accepted answer, which they read into InputBuffer.             *)
MainGetchar ==
    /\ pc = "getchar"
    /\ \E InputChar \in {"1", "2", "other"} :
          CASE InputChar = "1" ->
                 /\ ConnectionMode' = "SERVER"
                 /\ \E L \in PromptLines : InputBuffer' = FgetsStore(InputBuffer, L)
                 /\ pc' = "hs_startup"
            [] InputChar = "2" ->
                 /\ ConnectionMode' = "CLIENT"
                 /\ \E L \in PromptLines : InputBuffer' = FgetsStore(InputBuffer, L)
                 /\ pc' = "ch_startup"
            [] OTHER ->
                 /\ UNCHANGED << ConnectionMode, InputBuffer >>
                 /\ pc' = "while"
    /\ UNCHANGED << promptVars, bConnectionSuccess, netVars,
                    bHasMessageWaiting, bPerformExit, InputThread, thr, line,
                    sent, report, failed, rxVars >>
    /\ oob' = {}

(* Lines 175-177: the exit prompt; returning from main ends the process. *)
MainExit ==
    /\ pc = "exit_prompt"
    /\ pc' = "done"
    /\ UNCHANGED << setupVars, chatVars, rxVars >>
    /\ oob' = {}

(***************************************************************************)
(* HostServer                                                              *)
(***************************************************************************)
(* Lines 229-242: WSAStartup and its two failure returns, compiled on      *)
(* _WIN32 only; the other builds always take the ok branch.                *)
HsStartup ==
    /\ pc = "hs_startup"
    /\ \E ok \in BOOLEAN :
          /\ IF ok
             THEN pc' = "hs_socket" /\ UNCHANGED bConnectionSuccess
             ELSE pc' = "result" /\ bConnectionSuccess' = FALSE
    /\ UNCHANGED << promptVars, ConnectionMode, netVars, chatVars, rxVars >>
    /\ oob' = {}

(* Lines 254-257: socket(). *)
HsSocket ==
    /\ pc = "hs_socket"
    /\ \E fd \in {FirstFd, INVALID_SOCKET} :
          /\ ServerSocket' = fd
          /\ IF fd = INVALID_SOCKET
             THEN /\ pc' = "result"
                  /\ bConnectionSuccess' = FALSE
                  /\ UNCHANGED openSocks
             ELSE /\ pc' = "hs_bind"
                  /\ openSocks' = openSocks \cup {fd}
                  /\ UNCHANGED bConnectionSuccess
    /\ UNCHANGED << promptVars, ConnectionMode, connected, listening, chatVars,
                    rxVars >>
    /\ oob' = {}

(* Lines 259-262: bind(). *)
HsBind ==
    /\ pc = "hs_bind"
    /\ \E ret \in {0, SOCKET_ERROR} :
          IF ret = SOCKET_ERROR
          THEN pc' = "result" /\ bConnectionSuccess' = FALSE
          ELSE pc' = "hs_listen" /\ UNCHANGED bConnectionSuccess
    /\ UNCHANGED << promptVars, ConnectionMode, netVars, chatVars, rxVars >>
    /\ oob' = {}

(* Lines 264-266: listen(); its return value is not looked at. *)
HsListen ==
    /\ pc = "hs_listen"
    /\ \E ret \in {0, SOCKET_ERROR} :
          listening' = IF ret = 0 THEN listening \cup {ServerSocket}
                       ELSE listening
    /\ pc' = "hs_accept"
    /\ UNCHANGED << promptVars, ConnectionMode, bConnectionSuccess, ServerSocket,
                    openSocks, connected, chatVars, rxVars >>
    /\ oob' = {}

(* Lines 268-270: accept(); its result overwrites ServerSocket and the     *)
(* function returns true whatever it was.  accept can succeed only on a    *)
(* listening socket.                                                       *)
HsAccept ==
    /\ pc = "hs_accept"
    /\ \E fd \in {AcceptFd, INVALID_SOCKET} :
          /\ (fd # INVALID_SOCKET) => ServerSocket \in listening
          /\ ServerSocket' = fd
          /\ IF fd # INVALID_SOCKET
             THEN /\ openSocks' = openSocks \cup {fd}
                  /\ connected' = connected \cup {fd}
             ELSE UNCHANGED << openSocks, connected >>
    /\ bConnectionSuccess' = TRUE
    /\ pc' = "result"
    /\ UNCHANGED << promptVars, ConnectionMode, listening, chatVars, rxVars >>
    /\ oob' = {}

(***************************************************************************)
(* ConnectToHost                                                           *)
(***************************************************************************)
(* Lines 182-195: WSAStartup and its two failure returns, compiled on      *)
(* _WIN32 only; the other builds always take the ok branch.                *)
ChStartup ==
    /\ pc = "ch_startup"
    /\ \E ok \in BOOLEAN :
          /\ IF ok
             THEN pc' = "ch_socket" /\ UNCHANGED bConnectionSuccess
             ELSE pc' = "result" /\ bConnectionSuccess' = FALSE
    /\ UNCHANGED << promptVars, ConnectionMode, netVars, chatVars, rxVars >>
    /\ oob' = {}

(* Lines 207-211: socket(). *)
ChSocket ==
    /\ pc = "ch_socket"
    /\ \E fd \in {FirstFd, INVALID_SOCKET} :
          /\ ServerSocket' = fd
          /\ IF fd = INVALID_SOCKET
             THEN /\ pc' = "result"
                  /\ bConnectionSuccess' = FALSE
                  /\ UNCHANGED openSocks
             ELSE /\ pc' = "ch_connect"
                  /\ openSocks' = openSocks \cup {fd}
                  /\ UNCHANGED bConnectionSuccess
    /\ UNCHANGED << promptVars, ConnectionMode, connected, listening, chatVars,
                    rxVars >>
    /\ oob' = {}

(* Lines 213-224: connect(). *)
ChConnect ==
    /\ pc = "ch_connect"
    /\ \E ret \in {0, SOCKET_ERROR} :
          IF ret = SOCKET_ERROR
          THEN /\ bConnectionSuccess' = FALSE
               /\ UNCHANGED connected
          ELSE /\ bConnectionSuccess' = TRUE
               /\ connected' = connected \cup {ServerSocket}
    /\ pc' = "result"
    /\ UNCHANGED << promptVars, ConnectionMode, ServerSocket, openSocks, listening,
                    chatVars, rxVars >>
    /\ oob' = {}

(* Lines 130-139 and 157-166: Chat() is called only if setup returned true. *)
MainResult ==
    /\ pc = "result"
    /\ pc' = IF bConnectionSuccess THEN "chat_init" ELSE "close"
    /\ UNCHANGED << setupVars, chatVars, rxVars >>
    /\ oob' = {}

(* Lines 273-281, called at 140 and 167: close(ServerSocket) unless the    *)
(* global is zero; closing what is not an open descriptor changes nothing. *)
CloseConnection ==
    /\ pc = "close"
    /\ IF ServerSocket # 0
       THEN /\ openSocks' = openSocks \ {ServerSocket}
            /\ connected' = connected \ {ServerSocket}
            /\ listening' = listening \ {ServerSocket}
       ELSE UNCHANGED << openSocks, connected, listening >>
    /\ pc' = "while"
    /\ UNCHANGED << promptVars, ConnectionMode, bConnectionSuccess, ServerSocket,
                    chatVars, rxVars >>
    /\ oob' = {}

(***************************************************************************)
(* WaitForUserInput, run by input thread t                                 *)
(***************************************************************************)
(* Lines 376-378 and 380-382: LastChar = strlen(InputBuffer) - 1, and the  *)
(* byte at LastChar replaced by zero if it is ch.  LastChar is a size_t:   *)
(* on an empty string it is SIZE_MAX and the byte looked at is outside the *)
(* array (TrimOutside); InputBuffer itself is then left as it is.          *)
TrimOutside(buf) == Strlen(buf) = 0

(* TrimLast with the second test a copy of the first: only '\n' is trimmed. *)
TrimLastNewlineOnly(buf, ch) ==
    IF Strlen(buf) > 0 /\ buf[Strlen(buf) - 1] = LF
    THEN [buf EXCEPT ![Strlen(buf) - 1] = NUL]
    ELSE buf

TrimLast(buf, ch) ==
    IF Strlen(buf) > 0 /\ buf[Strlen(buf) - 1] = ch
    THEN [buf EXCEPT ![Strlen(buf) - 1] = NUL]
    ELSE buf

(* What a trim step records in oob: on an empty string it reads the byte b    *)
(* found before the array, and overwrites it if it equals ch.              *)
TrimOob(buf, ch, b) ==
    IF TrimOutside(buf)
    THEN IF b = ch THEN {"trim_read", "trim_write"} ELSE {"trim_read"}
    ELSE {}

(* ThreadFgets with line 384 moved up: the flag is set as soon as the line *)
(* is read, before it is trimmed. *)
ThreadFgetsFlagEarly(t) ==
    /\ pc # "done"
    /\ thr[t] = "fgets"
    /\ \E L \in Lines :
          /\ InputBuffer' = FgetsStore(InputBuffer, L)
          /\ line' = L
    /\ bHasMessageWaiting' = TRUE
    /\ thr' = [thr EXCEPT ![t] = "trim1"]
    /\ UNCHANGED << pc, setupVars, bPerformExit, InputThread, sent, report,
                    failed, rxVars >>
    /\ oob' = {}

(* Line 372: fgets(InputBuffer, 300, stdin), blocking until a line, end of *)
(* input or an error. *)
ThreadFgets(t) ==
    /\ pc # "done"
    /\ thr[t] = "fgets"
    /\ \E L \in Lines :
          /\ InputBuffer' = FgetsStore(InputBuffer, L)
          /\ line' = L
    /\ thr' = [thr EXCEPT ![t] = "trim1"]
    /\ UNCHANGED << pc, setupVars, bHasMessageWaiting, bPerformExit,
                    InputThread, sent, report, failed, rxVars >>
    /\ oob' = {}

(* Lines 376-378: trim a trailing newline. *)
ThreadTrim1(t) ==
    /\ pc # "done"
    /\ thr[t] = "trim1"
    /\ InputBuffer' = TrimLast(InputBuffer, LF)
    /\ \E b \in Bytes : oob' = TrimOob(InputBuffer, LF, b)
    /\ thr' = [thr EXCEPT ![t] = "trim2"]
    /\ UNCHANGED << pc, setupVars, bHasMessageWaiting, bPerformExit,
                    InputThread, line, sent, report, failed, rxVars >>

(* Lines 380-382: trim a trailing carriage return. *)
ThreadTrim2(t) ==
    /\ pc # "done"
    /\ thr[t] = "trim2"
    /\ InputBuffer' = TrimLast(InputBuffer, CR)
    /\ \E b \in Bytes : oob' = TrimOob(InputBuffer, CR, b)
    /\ thr' = [thr EXCEPT ![t] = "setflag"]
    /\ UNCHANGED << pc, setupVars, bHasMessageWaiting, bPerformExit,
                    InputThread, line, sent, report, failed, rxVars >>

(* Line 384: bHasMessageWaiting = true. *)
ThreadSetFlag(t) ==
    /\ pc # "done"
    /\ thr[t] = "setflag"
    /\ bHasMessageWaiting' = TRUE
    /\ thr' = [thr EXCEPT ![t] = "exit"]
    /\ UNCHANGED << pc, setupVars, bPerformExit, InputBuffer, InputThread,
                    line, sent, report, failed, rxVars >>
    /\ oob' = {}

(* Line 385: pthread_exit(NULL); the thread can now be joined. *)
ThreadExit(t) ==
    /\ pc # "done"
    /\ thr[t] = "exit"
    /\ thr' = [thr EXCEPT ![t] = "exited"]
    /\ UNCHANGED << pc, setupVars, bHasMessageWaiting, bPerformExit,
                    InputBuffer, InputThread, line, sent, report, failed,
                    rxVars >>
    /\ oob' = {}

(***************************************************************************)
(* Chat                                                                    *)
(***************************************************************************)
(* Threads created and not yet joined. *)
Live == { t \in Threads : thr[t] \notin {"none", "joined"} }

(* The error message of lines 307-313, 334-340, 346-352 ("Other party     *)
(* disconnected!" or "Socket Error! Code"), printed by the _WIN32 build    *)
(* and by no other: what report can be after a failure.                    *)
ErrReports == {"error", report}

(* Thread slots free for a new thread: never used, or joined. *)
FreeSlots == { t \in Threads : thr[t] \in {"none", "joined"} }

(* pthread_create(&InputThread, NULL, WaitForUserInput, ...) of lines 296  *)
(* and 322: a new thread starting at line 372, or an error message and no  *)
(* thread (InputThread is then not written).  The model has MaxThreads     *)
(* thread slots; with none free the call fails, as with EAGAIN.            *)
PthreadCreate ==
    \E ok \in BOOLEAN :
       /\ ok => FreeSlots # {}
       /\ IF ok
          THEN LET t == CHOOSE u \in FreeSlots : \A v \in FreeSlots : u <= v
               IN /\ thr' = [thr EXCEPT ![t] = "fgets"]
                  /\ InputThread' = t
                  /\ UNCHANGED report
          ELSE /\ report' = "Error creating thread"
               /\ UNCHANGED << thr, InputThread >>

(* Lines 287-293. *)
ChatInit ==
    /\ pc = "chat_init"
    /\ bPerformExit' = FALSE
    /\ bHasMessageWaiting' = FALSE
    /\ report' = "Connected"
    /\ pc' = "chat_create0"
    /\ UNCHANGED << setupVars, InputBuffer, InputThread, thr, line, sent,
                    failed, rxVars >>
    /\ oob' = {}

(* Lines 295-299: the first input thread. *)
ChatCreate0 ==
    /\ pc = "chat_create0"
    /\ PthreadCreate
    /\ pc' = "chat_check"
    /\ UNCHANGED << setupVars, bHasMessageWaiting, bPerformExit, InputBuffer,
                    line, sent, failed, rxVars >>
    /\ oob' = {}

(* ChatCheck with line 304 left out: the line is consumed without the join. *)
ChatCheckNoJoin ==
    /\ pc = "chat_check"
    /\ pc' = IF bHasMessageWaiting THEN "chat_send" ELSE "chat_select"
    /\ UNCHANGED << setupVars, chatVars, rxVars >>
    /\ oob' = {}

(* ChatCheck with the test of line 303 left out: Chat joins the input      *)
(* thread in every iteration. *)
ChatCheckAlwaysJoin ==
    /\ pc = "chat_check"
    /\ pc' = "chat_join"
    /\ UNCHANGED << setupVars, chatVars, rxVars >>
    /\ oob' = {}

(* ChatCheck that never finds the flag set: no line is consumed. *)
ChatCheckNeverTrue ==
    /\ pc = "chat_check"
    /\ pc' = "chat_select"
    /\ UNCHANGED << setupVars, chatVars, rxVars >>
    /\ oob' = {}

(* Line 303: if (bHasMessageWaiting). *)
ChatCheck ==
    /\ pc = "chat_check"
    /\ pc' = IF bHasMessageWaiting THEN "chat_join" ELSE "chat_select"
    /\ UNCHANGED << setupVars, chatVars, rxVars >>
    /\ oob' = {}

(* ChatJoin with a join that returns at once and retires nothing. *)
ChatJoinNoWait ==
    /\ pc = "chat_join"
    /\ pc' = "chat_send"
    /\ UNCHANGED << setupVars, chatVars, rxVars >>
    /\ oob' = {}

(* Line 304: pthread_join(InputThread, NULL) returns once that thread has  *)
(* terminated. *)
ChatJoin ==
    /\ pc = "chat_join"
    /\ InputThread \in Threads
    /\ thr[InputThread] = "exited"
    /\ thr' = [thr EXCEPT ![InputThread] = "joined"]
    /\ pc' = "chat_send"
    /\ UNCHANGED << setupVars, bHasMessageWaiting, bPerformExit, InputBuffer,
                    InputThread, line, sent, report, failed, rxVars >>
    /\ oob' = {}

(* The line QUIT as far as InputBuffer of BufSize bytes holds it: its      *)
(* first letter and the newline.  Nothing in the source compares the text  *)
(* of a line with anything, so the letters left out play no part.          *)
QuitLine == << LetterQ, LF >>

(* ChatSend with a test for the quit line before line 306: the line is not *)
(* sent and the session ends. *)
ChatSendQuits ==
    /\ pc = "chat_send"
    /\ IF CStr(InputBuffer) = << LetterQ >>
       THEN /\ bPerformExit' = TRUE
            /\ UNCHANGED << sent, failed, report >>
       ELSE /\ sent' = CStr(InputBuffer)
            /\ \E ret \in {0, SOCKET_ERROR} :
                  /\ (ServerSocket \notin connected) => ret = SOCKET_ERROR
                  /\ IF ret = SOCKET_ERROR
                     THEN /\ bPerformExit' = TRUE
                          /\ failed' = failed \cup {"send"}
                          /\ report' \in ErrReports
                     ELSE UNCHANGED << bPerformExit, failed, report >>
    /\ pc' = "chat_reset"
    /\ UNCHANGED << setupVars, bHasMessageWaiting, InputBuffer, InputThread,
                    thr, line, rxVars >>
    /\ oob' = {}

(* Lines 306-315: send(ServerSocket, InputBuffer, strlen(InputBuffer), 0); *)
(* it cannot succeed on what is not a connected socket. *)
ChatSend ==
    /\ pc = "chat_send"
    /\ sent' = CStr(InputBuffer)
    /\ \E ret \in {0, SOCKET_ERROR} :
          /\ (ServerSocket \notin connected) => ret = SOCKET_ERROR
          /\ IF ret = SOCKET_ERROR
             THEN /\ bPerformExit' = TRUE
                  /\ failed' = failed \cup {"send"}
                  /\ report' \in ErrReports
             ELSE UNCHANGED << bPerformExit, failed, report >>
    /\ pc' = "chat_reset"
    /\ UNCHANGED << setupVars, bHasMessageWaiting, InputBuffer, InputThread,
                    thr, line, rxVars >>
    /\ oob' = {}

(* Lines 317-319: the flag and InputBuffer are reset.  The line has been   *)
(* consumed: the history variables line and sent start afresh.             *)
ChatReset ==
    /\ pc = "chat_reset"
    /\ bHasMessageWaiting' = FALSE
    /\ InputBuffer' = Memset(InputBuffer, BufSize)
    /\ line' = << >>
    /\ sent' = << >>
    /\ pc' = "chat_create"
    /\ UNCHANGED << setupVars, bPerformExit, InputThread, thr, report,
                    failed, rxVars >>
    /\ oob' = {}

(* Lines 321-324: the next input thread, whatever bPerformExit is. *)
ChatCreate ==
    /\ pc = "chat_create"
    /\ PthreadCreate
    /\ pc' = "chat_select"
    /\ UNCHANGED << setupVars, bHasMessageWaiting, bPerformExit, InputBuffer,
                    line, sent, failed, rxVars >>
    /\ oob' = {}

(* ChatSelect with line 341 left out: a failed select does not end the loop. *)
ChatSelectNoExit ==
    /\ pc = "chat_select"
    /\ \E r \in {-1, 0, 1} :
          /\ SelectResponse' = r
          /\ IF r = -1
             THEN /\ failed' = failed \cup {"select"}
                  /\ report' \in ErrReports
                  /\ UNCHANGED bPerformExit
             ELSE UNCHANGED << bPerformExit, failed, report >>
          /\ pc' = IF r > 0 THEN "chat_recv" ELSE "chat_while"
    /\ recvRet' = "none"
    /\ UNCHANGED << setupVars, bHasMessageWaiting, InputBuffer, InputThread,
                    thr, line, sent, ReceiveBuffer, got, shown >>
    /\ oob' = {}

(* Lines 327-342: select on the socket with the 500 microsecond timeout. *)
ChatSelect ==
    /\ pc = "chat_select"
    /\ \E r \in {-1, 0, 1} :
          /\ SelectResponse' = r
          /\ IF r = -1
             THEN /\ bPerformExit' = TRUE
                  /\ failed' = failed \cup {"select"}
                  /\ report' \in ErrReports
             ELSE UNCHANGED << bPerformExit, failed, report >>
          /\ pc' = IF r > 0 THEN "chat_recv" ELSE "chat_while"
    /\ recvRet' = "none"
    /\ UNCHANGED << setupVars, bHasMessageWaiting, InputBuffer, InputThread,
                    thr, line, sent, ReceiveBuffer, got, shown >>
    /\ oob' = {}

(* Line 362: printf("They said: %s\n", ReceiveBuffer) prints the C string  *)
(* at ReceiveBuffer: up to the first zero byte, and when the array holds   *)
(* none, on into the bytes g that follow the array.                        *)
Displayed(rb, g) == IF HasNul(rb) THEN CStr(rb) ELSE CStr(rb) \o g

(* Line 363: memset(ReceiveBuffer, '\0', strlen(ReceiveBuffer)), the part  *)
(* of it inside the array. *)
Cleared(rb) == Memset(rb, Strlen(rb))

(* What the two calls record in oob when the array holds no zero byte. *)
RecvOob(rb, g) ==
    IF HasNul(rb) THEN {}
    ELSE IF g = << >> THEN {"recv_read"} ELSE {"recv_read", "recv_write"}

(* Lines 361-363, the default case: N > 0 bytes were stored at the start   *)
(* of ReceiveBuffer; they are printed and the buffer is cleared.  Data can *)
(* arrive only on a connected socket.                                      *)
ChatRecvData ==
    /\ ServerSocket \in connected
    /\ \E c \in Chunks, g \in Garbage :
          LET rb == RecvStore(ReceiveBuffer, c)
          IN /\ got' = c
             /\ shown' = Displayed(rb, g)
             /\ ReceiveBuffer' = Cleared(rb)
             /\ oob' = RecvOob(rb, g)
    /\ recvRet' = "data"
    /\ report' = "They said"
    /\ UNCHANGED << bPerformExit, failed >>

(* ChatRecv with case 0 falling into the error case: a zero-byte receive   *)
(* is reported as an error. *)
ChatRecvZeroAsError ==
    /\ pc = "chat_recv"
    /\ \/ /\ recvRet' = "error"
          /\ bPerformExit' = TRUE
          /\ failed' = failed \cup {"recv"}
          /\ report' \in ErrReports
          /\ oob' = {}
          /\ UNCHANGED << ReceiveBuffer, got, shown >>
       \/ /\ recvRet' = "zero"
          /\ report' = "error"
          /\ bPerformExit' = TRUE
          /\ oob' = {}
          /\ UNCHANGED << failed, ReceiveBuffer, got, shown >>
       \/ ChatRecvData
    /\ pc' = "chat_while"
    /\ UNCHANGED << setupVars, bHasMessageWaiting, InputBuffer, InputThread,
                    thr, line, sent, SelectResponse >>

(* Lines 343-365: recv into ReceiveBuffer and the three cases of its       *)
(* result.                                                                 *)
ChatRecv ==
    /\ pc = "chat_recv"
    /\ \/ /\ recvRet' = "error"
          /\ bPerformExit' = TRUE
          /\ failed' = failed \cup {"recv"}
          /\ report' \in ErrReports
          /\ oob' = {}
          /\ UNCHANGED << ReceiveBuffer, got, shown >>
       \/ /\ recvRet' = "zero"
          /\ report' = "Other party quit!"
          /\ bPerformExit' = TRUE
          /\ oob' = {}
          /\ UNCHANGED << failed, ReceiveBuffer, got, shown >>
       \/ ChatRecvData
    /\ pc' = "chat_while"
    /\ UNCHANGED << setupVars, bHasMessageWaiting, InputBuffer, InputThread,
                    thr, line, sent, SelectResponse >>

(* Line 367: while (bPerformExit != true); Chat returns to main, which     *)
(* calls CloseConnection (lines 140, 167).  The iteration is over: the     *)
(* history variables of its poll start afresh, and so does SelectResponse, *)
(* which is not read again before the next select assigns it.              *)
ChatWhile ==
    /\ pc = "chat_while"
    /\ pc' = IF bPerformExit # TRUE THEN "chat_check" ELSE "close"
    /\ SelectResponse' = 0
    /\ recvRet' = "none"
    /\ got' = << >>
    /\ shown' = << >>
    /\ report' = "none"
    /\ failed' = IF bPerformExit # TRUE THEN failed ELSE {}
    /\ UNCHANGED << setupVars, bHasMessageWaiting, bPerformExit, InputBuffer,
                    InputThread, thr, line, sent, ReceiveBuffer >>
    /\ oob' = {}

(***************************************************************************)
(* The program                                                             *)
(***************************************************************************)
Next ==
    \/ MainWhile
    \/ MainGetchar
    \/ HsStartup
    \/ HsSocket
    \/ HsBind
    \/ HsListen
    \/ HsAccept
    \/ ChStartup
    \/ ChSocket
    \/ ChConnect
    \/ MainResult
    \/ ChatInit
    \/ ChatCreate0
    \/ ChatCheck
    \/ ChatJoin
    \/ ChatSend
    \/ ChatReset
    \/ ChatCreate
    \/ ChatSelect
    \/ ChatRecv
    \/ ChatWhile
    \/ CloseConnection
    \/ MainExit
    \/ \E t \in Threads : ThreadFgets(t)
    \/ \E t \in Threads : ThreadTrim1(t)
    \/ \E t \in Threads : ThreadTrim2(t)
    \/ \E t \in Threads : ThreadSetFlag(t)
    \/ \E t \in Threads : ThreadExit(t)

Spec == Init /\ [][Next]_vars

(* The steps of Chat itself, lines 285-368. *)
ChatStep ==
    \/ ChatInit \/ ChatCreate0 \/ ChatCheck \/ ChatJoin \/ ChatSend
    \/ ChatReset \/ ChatCreate \/ ChatSelect \/ ChatRecv \/ ChatWhile

(* The steps of an input thread after its fgets has returned, lines        *)
(* 376-385: they wait for nothing. *)
ThreadStep ==
    \E t \in Threads :
        ThreadTrim1(t) \/ ThreadTrim2(t) \/ ThreadSetFlag(t) \/ ThreadExit(t)

(* The program with both kinds of thread scheduled: the main thread keeps   *)
(* running Chat, whose calls return (select after its timeout at the       *)
(* latest), and an input thread whose fgets has returned runs to its       *)
(* pthread_exit.  Nothing is assumed about fgets, which waits for the user. *)
SpecFair == Spec /\ WF_vars(ChatStep) /\ WF_vars(ThreadStep)

(***************************************************************************)
(* The prompts: GetValidPortNo and GetValidIP                              *)
(*                                                                         *)
(* Both read a line with fgets into InputBuffer (300 bytes) and scan it.   *)
(* promptText is the text of that line, well inside the 300 bytes; its     *)
(* characters are ASCII codes.                                             *)
(***************************************************************************)
Dot == 46
IsDigit(c) == c \in 48 .. 57

(* Answers typed at the port prompt: the digits 0 3 4 5 6, '-' and 'a'. *)
PortChars == {45, 48, 51, 52, 53, 54, 97}
PortTexts == SeqUpTo(PortChars, MaxPortLen)

(* Answers typed at the address prompt: the digits 2 and 6, and '.'. *)
IPChars == {50, 54, Dot}
IPTexts == SeqUpTo(IPChars, MaxIPLen)

(* The decimal number made of the digits of s from index i on, up to the   *)
(* first character that is no digit: the conversion loop of atoi and of    *)
(* sscanf's %d.                                                            *)
RECURSIVE DigitsFrom(_, _, _)
DigitsFrom(s, i, acc) ==
    IF i > Len(s) \/ ~IsDigit(s[i]) THEN acc
    ELSE DigitsFrom(s, i + 1, acc * 10 + (s[i] - 48))

(* atoi on a string: 0 when it does not start with a digit. *)
Atoi(s) == DigitsFrom(s, 1, 0)

(* sscanf(InputBuffer, "%d", PortNo), line 404: an optional '-' and then   *)
(* digits; n is the number of conversions made, value what is stored.      *)
SscanfInt(s) ==
    LET neg == Len(s) >= 1 /\ s[1] = 45
        first == IF neg THEN 2 ELSE 1
    IN IF first <= Len(s) /\ IsDigit(s[first])
       THEN [n |-> 1,
             value |-> IF neg THEN 0 - DigitsFrom(s, first, 0)
                       ELSE DigitsFrom(s, first, 0)]
       ELSE [n |-> 0, value |-> 0]

(* The test of line 404. *)
PortTest(s) ==
    /\ SscanfInt(s).n = 1
    /\ SscanfInt(s).value < 65535
    /\ SscanfInt(s).value > 0

(* *PortNo once sscanf has converted the answer read (line 404); this is   *)
(* the port GetValidPortNo hands back when it accepts the answer.          *)
PortNo == SscanfInt(promptText).value

(* Lines 403-410: one pass of the loop of GetValidPortNo on the answer     *)
(* read.                                                                   *)
GetValidPortNo ==
    /\ promptPc = "port"
    /\ promptOk' = PortTest(promptText)
    /\ promptPc' = IF PortTest(promptText) THEN "port_done" ELSE "port_again"
    /\ UNCHANGED << promptText, pc, ConnectionMode, bConnectionSuccess,
                    netVars, chatVars, rxVars, oob >>

(* Lines 397-403 and 411: the answer was rejected, the prompt is shown     *)
(* again and the next answer (a short one) is read.                        *)
PortAgain ==
    /\ promptPc = "port_again"
    /\ promptText' \in SeqUpTo(PortChars, MaxRetryLen)
    /\ promptPc' = "port"
    /\ UNCHANGED << promptOk, pc, ConnectionMode, bConnectionSuccess,
                    netVars, chatVars, rxVars, oob >>

(* Lines 438-468: the loop over the characters of IPAddressBuffer from     *)
(* index Counter on, with the octet collected so far and the dots counted  *)
(* so far.  valid is bValidInput when the loop is left (by its end or by a *)
(* break), last and dots are LastIPOctet and OctetCounter at that point.   *)
RECURSIVE IPLoop(_, _, _, _)
IPLoop(buf, Counter, LastIPOctet, OctetCounter) ==
    IF Counter >= Len(buf)
    THEN [valid |-> TRUE, last |-> LastIPOctet, dots |-> OctetCounter]
    ELSE LET InputChar == buf[Counter + 1]
             counted == IF InputChar = Dot THEN OctetCounter + 1
                        ELSE OctetCounter
         IN IF (~IsDigit(InputChar)) /\ InputChar # Dot
            THEN [valid |-> FALSE, last |-> LastIPOctet, dots |-> OctetCounter]
            ELSE IF InputChar = Dot /\ Len(LastIPOctet) = 0
            THEN [valid |-> FALSE, last |-> LastIPOctet, dots |-> OctetCounter]
            ELSE IF InputChar = Dot /\ Len(LastIPOctet) > 0
            THEN IF Atoi(LastIPOctet) > 255 \/ Atoi(LastIPOctet) < 0
                 THEN [valid |-> FALSE, last |-> LastIPOctet, dots |-> counted]
                 ELSE IPLoop(buf, Counter + 1, << >>, counted)
            ELSE IPLoop(buf, Counter + 1, Append(LastIPOctet, InputChar),
                        counted)

(* Lines 429-472: bValidInput for the answer s.  sscanf's %s converts      *)
(* nothing on an empty line; after the loop the dot count and the last     *)
(* octet are tested, whatever way the loop was left.                       *)
IPTest(s) ==
    IF Len(s) = 0 THEN FALSE
    ELSE LET r == IPLoop(s, 0, << >>, 0)
         IN /\ r.valid
            /\ r.dots = 3
            /\ ~(Atoi(r.last) > 255 \/ Atoi(r.last) < 0)

(* Lines 424-474: one pass of the loop of GetValidIP on the answer read. *)
GetValidIP ==
    /\ promptPc = "ip"
    /\ promptOk' = IPTest(promptText)
    /\ promptPc' = IF IPTest(promptText) THEN "ip_done" ELSE "ip_again"
    /\ UNCHANGED << promptText, pc, ConnectionMode,
                    bConnectionSuccess, netVars, chatVars, rxVars, oob >>

(* Lines 423-427 and 475-477: the answer was rejected, the prompt is shown *)
(* again and the next answer (a short one) is read.                        *)
IPAgain ==
    /\ promptPc = "ip_again"
    /\ promptText' \in SeqUpTo(IPChars, MaxRetryLen)
    /\ promptPc' = "ip"
    /\ UNCHANGED << promptOk, pc, ConnectionMode, bConnectionSuccess,
                    netVars, chatVars, rxVars, oob >>

(* A prompt has just read its first answer; the rest of the process is as  *)
(* main left it before the call.                                           *)
PromptInit ==
    /\ pc = "getchar"
    /\ ConnectionMode \in {"SERVER", "CLIENT"}
    /\ bConnectionSuccess = FALSE
    /\ ServerSocket = 0
    /\ openSocks = {}
    /\ connected = {}
    /\ listening = {}
    /\ bHasMessageWaiting = FALSE
    /\ bPerformExit = FALSE
    /\ InputBuffer = Zeroed
    /\ ReceiveBuffer = Zeroed
    /\ InputThread = 0
    /\ thr = [t \in Threads |-> "none"]
    /\ SelectResponse = 0
    /\ recvRet = "none"
    /\ line = << >>
    /\ sent = << >>
    /\ got = << >>
    /\ shown = << >>
    /\ report = "none"
    /\ failed = {}
    /\ oob = {}
    /\ promptOk = FALSE
    /\ \/ promptPc = "port" /\ promptText \in PortTexts
       \/ promptPc = "ip" /\ ConnectionMode = "CLIENT" /\ promptText \in IPTexts

PromptNext ==
    \/ GetValidPortNo
    \/ PortAgain
    \/ GetValidIP
    \/ IPAgain

SpecPrompt == PromptInit /\ [][PromptNext]_vars

(***************************************************************************)
(* Properties                                                              *)
(***************************************************************************)
(* Positions of the main thread inside Chat. *)
ChatPcs == { "chat_init", "chat_create0", "chat_check", "chat_join",
             "chat_send", "chat_reset", "chat_create", "chat_select",
             "chat_recv", "chat_while" }

(* States of an input thread between the start of its line read and its    *)
(* setting of bHasMessageWaiting. *)
Writing == { "fgets", "trim1", "trim2", "setflag" }

(* C1: whenever Chat is about to read InputBuffer (the send of line 306) or *)
(* to clear it (the memset of line 319), the flag is true, the thread      *)
(* InputThread names has been joined, and no input thread exists that is   *)
(* between the start of its line read and its setting of the flag: the     *)
(* next one has not been created yet.                                      *)
C1_HandOff ==
    pc \in {"chat_send", "chat_reset"} =>
        /\ bHasMessageWaiting
        /\ InputThread \in Threads
        /\ thr[InputThread] = "joined"
        /\ Live = {}
        /\ \A t \in Threads : thr[t] \notin Writing

(* A line was read by the input thread and Chat is about to send it. *)
C1_Witness ==
    /\ pc = "chat_send"
    /\ line # << >>
    /\ thr[InputThread] = "joined"

(* C2: at most one input thread is created and not yet joined. *)
C2_OneInputTask == Cardinality(Live) <= 1

(* A second input thread runs after the first was joined and its line sent *)
(* (here with a failed send). *)
C2_Witness ==
    /\ pc = "chat_select"
    /\ "send" \in failed
    /\ Cardinality(Live) = 1

(* C3: bHasMessageWaiting changes only from false to true, by an input     *)
(* thread executing line 384 after its two trimming steps, and from true   *)
(* to false, by Chat at line 318 with the thread joined; no thread sets a  *)
(* flag that is already true; the flag is false once the line is consumed. *)
C3_FlagProtocol ==
    /\ [][ /\ (bHasMessageWaiting' # bHasMessageWaiting) =>
                \/ /\ bHasMessageWaiting' = TRUE
                   /\ \E t \in Threads : thr[t] = "setflag" /\ thr'[t] = "exit"
                   /\ pc' = pc
                \/ /\ bHasMessageWaiting' = FALSE
                   /\ pc = "chat_reset"
                   /\ pc' = "chat_create"
                   /\ InputThread \in Threads
                   /\ thr[InputThread] = "joined"
           /\ (\E t \in Threads : thr[t] = "setflag" /\ thr'[t] # "setflag") =>
                ~bHasMessageWaiting ]_vars
    /\ [](pc = "chat_create" => ~bHasMessageWaiting)

(* Chat has just consumed a line: the flag went up and down again. *)
C3_Witness ==
    /\ pc = "chat_create"
    /\ ~bHasMessageWaiting
    /\ InputThread \in Threads
    /\ thr[InputThread] = "joined"

(* C4: once bPerformExit is true, Chat executes no send, select or recv.   *)
C4_NoOpWhenTerminating ==
    [][ (bPerformExit /\ pc \in {"chat_send", "chat_select", "chat_recv"}) =>
            pc' = pc ]_vars

(* C5: after a recv that returned zero bytes the session is terminating,   *)
(* the message printed is "Other party quit!" and not an error message,    *)
(* and the loop test that follows leaves the loop.                         *)
C5_ZeroReceive ==
    /\ []((pc = "chat_while" /\ recvRet = "zero") =>
             (bPerformExit /\ report = "Other party quit!"))
    /\ [][ (pc = "chat_while" /\ recvRet = "zero" /\ pc' # pc) =>
              pc' = "close" ]_vars

(* A receive returned zero bytes. *)
C5_Witness ==
    /\ pc = "chat_while"
    /\ recvRet = "zero"
    /\ bPerformExit

(* C6: a failed send, select or recv leaves bPerformExit true; bPerformExit *)
(* never goes back to false; an operation that has failed is not executed  *)
(* again; and the loop test that follows a failure leaves the loop.        *)
C6_FailureIsTerminal ==
    /\ [](failed # {} => bPerformExit)
    /\ [][ bPerformExit => bPerformExit' ]_vars
    /\ [][ \/ ("send" \in failed /\ pc = "chat_send")
           \/ ("select" \in failed /\ pc = "chat_select")
           \/ ("recv" \in failed /\ pc = "chat_recv")
           => pc' = pc ]_vars
    /\ [][ (pc = "chat_while" /\ failed # {} /\ pc' # pc) => pc' = "close" ]_vars

(* A send failed and then the select of the same iteration failed too. *)
C6_Witness ==
    /\ pc = "chat_while"
    /\ failed = {"send", "select"}

(* L without its last byte if that byte is ch. *)
StripLast(L, ch) ==
    IF Len(L) > 0 /\ L[Len(L)] = ch THEN SubSeq(L, 1, Len(L) - 1) ELSE L

(* L with one trailing '\n' removed and, only if one was removed, one      *)
(* preceding '\r' removed. *)
ClaimedTrim(L) ==
    IF Len(L) > 0 /\ L[Len(L)] = LF THEN StripLast(StripLast(L, LF), CR) ELSE L

(* C7 as claimed: the bytes passed to send are the line with one trailing  *)
(* '\n' removed and, only if a '\n' was removed, one preceding '\r'        *)
(* removed; nothing else is dropped.                                       *)
C7_SentIsClaimedTrim ==
    (pc = "chat_reset" /\ line # << >>) => sent = ClaimedTrim(line)

(* C7 as amended: the bytes passed to send are the line with one trailing  *)
(* '\n' removed if there is one and then one trailing '\r' removed if      *)
(* there is one, whether or not a '\n' was removed.                        *)
C7_SentIsTrimmed ==
    (pc = "chat_reset" /\ line # << >>) =>
        sent = StripLast(StripLast(line, LF), CR)

(* A line with no newline that ends in '\r' was sent without its '\r'. *)
C7_Witness ==
    /\ pc = "chat_reset"
    /\ line = << Digit1, CR >>
    /\ sent = << Digit1 >>

(* C8: after a receive of N > 0 bytes the text displayed is exactly those  *)
(* bytes, and ReceiveBuffer holds only zero bytes before the next poll.    *)
C8_DisplayIsReceived ==
    (pc = "chat_while" /\ recvRet = "data") =>
        (shown = got /\ ReceiveBuffer = Zeroed)

(* C9: Chat runs only on a socket that connection setup left valid and     *)
(* connected.                                                              *)
C9_ChatOnlyWhenConnected == pc \in ChatPcs => ServerSocket \in connected

(* C10 as claimed: after a session CloseConnection has closed the socket   *)
(* and the loop test of main leads back to the role prompt.                *)
C10_BackToRolePrompt ==
    [][ (pc = "while" /\ bConnectionSuccess /\ pc' # pc) =>
            (ServerSocket \notin openSocks /\ pc' = "getchar") ]_vars

(* C10 as amended: after a session CloseConnection has closed the socket   *)
(* in ServerSocket, and the loop test of main leaves the role-selection    *)
(* loop for the exit prompt; the role prompt is not shown again.           *)
C10_SessionThenExit ==
    /\ [][ (pc = "while" /\ bConnectionSuccess /\ pc' # pc) =>
              (ServerSocket \notin openSocks /\ pc' = "exit_prompt") ]_vars
    /\ [](bConnectionSuccess => pc # "getchar")

(* A session on a connected socket has ended and main is at the exit prompt. *)
C10_Witness ==
    /\ pc = "exit_prompt"
    /\ bConnectionSuccess
    /\ bPerformExit
    /\ ServerSocket \in {FirstFd, AcceptFd}
    /\ ServerSocket \notin openSocks


(* The text of s before its first dot, and the text after that dot. *)
RECURSIVE BeforeDot(_)
BeforeDot(s) ==
    IF s = << >> \/ Head(s) = Dot THEN << >>
    ELSE << Head(s) >> \o BeforeDot(Tail(s))

RECURSIVE AfterDot(_)
AfterDot(s) ==
    IF s = << >> THEN << >>
    ELSE IF Head(s) = Dot THEN Tail(s) ELSE AfterDot(Tail(s))

(* The dot-separated fields of s: one more than it has dots. *)
RECURSIVE Fields(_)
Fields(s) ==
    IF \A i \in 1 .. Len(s) : s[i] # Dot THEN << s >>
    ELSE << BeforeDot(s) >> \o Fields(AfterDot(s))

(* The number a string of decimal digits writes. *)
RECURSIVE Decimal(_)
Decimal(s) ==
    IF s = << >> THEN 0
    ELSE Decimal(SubSeq(s, 1, Len(s) - 1)) * 10 + (s[Len(s)] - 48)

(* s is four dot-separated decimal octets, each non-empty and in [0,255]. *)
FourOctets(s) ==
    /\ Len(Fields(s)) = 4
    /\ \A k \in 1 .. 4 :
          /\ Fields(s)[k] # << >>
          /\ \A i \in 1 .. Len(Fields(s)[k]) : IsDigit(Fields(s)[k][i])
          /\ Decimal(Fields(s)[k]) <= 255

(* C11: GetValidIP accepts an answer made of digits and dots exactly when   *)
(* it is four dot-separated decimal octets, each non-empty and in [0,255];  *)
(* three octets followed by a dot are rejected.                             *)
C11_IPAcceptsFourOctets ==
    promptPc \in {"ip_done", "ip_again"} =>
        (promptOk <=> FourOctets(promptText))

(* s is a decimal integer: an optional '-' and then digits only. *)
Numeric(s) ==
    LET d == IF s # << >> /\ Head(s) = 45 THEN Tail(s) ELSE s
    IN d # << >> /\ \A i \in 1 .. Len(d) : IsDigit(d[i])

(* The integer a numeric string writes. *)
NumberOf(s) ==
    IF Head(s) = 45 THEN 0 - Decimal(Tail(s)) ELSE Decimal(s)

(* C12: GetValidPortNo accepts a numeric answer n exactly when              *)
(* 1 <= n <= 65535, and the port it returns is in that range.               *)
C12_PortAcceptsRange ==
    /\ (promptPc \in {"port_done", "port_again"} /\ Numeric(promptText)) =>
           (promptOk <=> NumberOf(promptText) \in 1 .. 65535)
    /\ promptPc = "port_done" => PortNo \in 1 .. 65535

(* C13: whenever Chat is at the pthread_join of line 304, the thread it     *)
(* joins has finished its fgets and its writes of InputBuffer and has set   *)
(* the flag, so the join waits for nothing the user has to type; and at     *)
(* every position of the loop a step of Chat, or the pthread_exit of the    *)
(* thread being joined, can be taken without any keyboard input.            *)
C13_JoinNeverWaitsForKeyboard ==
    /\ pc = "chat_join" =>
          /\ InputThread \in Threads
          /\ thr[InputThread] \in {"exit", "exited"}
    /\ pc \in ChatPcs =>
          \/ ENABLED ChatStep
          \/ InputThread \in Threads /\ ENABLED ThreadExit(InputThread)

(* Chat is at the join while the thread that read a line has set the flag   *)
(* and not yet left. *)
C13_Witness ==
    /\ pc = "chat_join"
    /\ line # << >>
    /\ InputThread \in Threads
    /\ thr[InputThread] = "exit"

(* C14: send is called only for a non-empty line; for an empty line no send *)
(* is made, and the empty line does not make the session terminate.        *)
C14_SendOnlyNonEmpty ==
    [][ /\ (pc = "chat_send" /\ pc' # pc) => CStr(InputBuffer) # << >>
        /\ (pc = "chat_send" /\ CStr(InputBuffer) = << >>) =>
              (bPerformExit' = bPerformExit /\ failed' = failed) ]_vars

(* C15: after a line was consumed, the next input thread is started exactly *)
(* when the session is not terminating: after a failed send no thread is   *)
(* created, and after a send that succeeded one is (unless pthread_create  *)
(* itself reports an error).                                               *)
C15_NewTaskIffRunning ==
    [][ (pc = "chat_create" /\ pc' # pc) =>
            /\ bPerformExit => thr' = thr
            /\ ~bPerformExit =>
                  (thr' # thr \/ report' = "Error creating thread") ]_vars

(* C16: when bHasMessageWaiting is true in a session that is running, Chat  *)
(* eventually consumes the line (and resets the flag) or the session is    *)
(* terminating; the flag does not stay true for ever in a running session. *)
C16_LineEventuallyConsumed ==
    (pc \in ChatPcs /\ bHasMessageWaiting /\ ~bPerformExit)
        ~> (~bHasMessageWaiting \/ bPerformExit)

(* An input thread has set the flag while Chat is in its poll. *)
C16_Witness ==
    /\ pc = "chat_recv"
    /\ bHasMessageWaiting
    /\ ~bPerformExit
    /\ InputThread \in Threads
    /\ thr[InputThread] = "exited"

C18_PayloadsFollowLines ==
    /\ pc = "chat_reset" =>
          /\ line # << >>
          /\ sent = StripLast(StripLast(line, LF), CR)
    /\ pc \in {"chat_send", "chat_reset"} =>
          \A t \in Threads : thr[t] \in {"none", "joined"}

(* C19: every index at which the trimming of lines 376-382 reads or writes  *)
(* InputBuffer is inside the array: strlen(InputBuffer) - 1 is never       *)
(* computed for an empty buffer.                                           *)
C19_TrimInsideBuffer ==
    /\ "trim_read" \notin oob
    /\ "trim_write" \notin oob

(* C20: when CloseConnection returns, no socket the process opened during   *)
(* setup is still open, after a session and after a failed setup alike.    *)
C20_NoSocketLeftOpen ==
    [][ (pc = "close" /\ pc' # pc) => openSocks' = {} ]_vars

=============================================================================
